---- MODULE Spec2Model ----
(***************************************************************************)
(* A model of starlette_admin.contrib.sqla.view.ModelView: the admin view  *)
(* that maps create / read / update / delete, search, sort and paginate    *)
(* onto SQLAlchemy sessions and Select statements.                         *)
(*                                                                         *)
(* Two deployments of the same view are driven side by side on the same    *)
(* requests: one whose request.state.session is a Session ("sync") and one *)
(* whose session is an AsyncSession ("async").  Every handler is one       *)
(* action; what it did is kept as the list of session calls and hook calls *)
(* it issued, each with the way it was dispatched.                         *)
(***************************************************************************)
EXTENDS Integers, Sequences, FiniteSets, TLC

VARIABLES
    db,     \* [Kinds -> table]: the committed rows of the model's table
    req,    \* the request being served (its inputs and its environment);
            \* in the construction spec the class the view is built for
    run,    \* [Kinds -> run record]: what the handler did and how it ended
    pc,     \* "idle" | "done" ; in the construction spec "new" | "built"
    view    \* the ModelView object (or the error its construction raised)

vars == <<db, req, run, pc, view>>

(***************************************************************************)
(* Bounds                                                                  *)
(***************************************************************************)
MaxPk == 2        \* primary keys the table hands out: 1..MaxPk
MaxPks == 2       \* longest list of keys in one request
MaxAttrs == 3     \* longest class __dict__ in the construction spec
MaxOrder == 2     \* longest order_by list
MaxPage == 2      \* largest limit

(***************************************************************************)
(* Values.  None / NULL is the empty tuple, a present value v is <<v>>.    *)
(* A string is a tuple of one-character strings.                           *)
(***************************************************************************)
None == <<>>
Some(v) == <<v>>
IsNone(o) == o = <<>>
Get(o) == o[1]

Digits == <<"0", "1", "2", "3", "4", "5", "6", "7", "8", "9">>
IsDigit(c) == \E i \in 1..10 : Digits[i] = c
DigitValue(c) == (CHOOSE i \in 1..10 : Digits[i] = c) - 1

RECURSIVE SeqToSet(_)
SeqToSet(s) == IF s = <<>> THEN {} ELSE {Head(s)} \cup SeqToSet(Tail(s))

RECURSIVE SeqsUpTo(_, _)
SeqsUpTo(S, n) ==
    IF n = 0 THEN {<<>>}
    ELSE LET shorter == SeqsUpTo(S, n - 1)
         IN  shorter \cup {Append(s, x) : s \in shorter, x \in S}

RECURSIVE SetToSortedSeq(_)
SetToSortedSeq(S) ==
    IF S = {} THEN <<>>
    ELSE LET m == CHOOSE x \in S : \A y \in S : x <= y
         IN  <<m>> \o SetToSortedSeq(S \ {m})

\* str.lower() on one character
LowerChar(c) ==
    CASE c = "A" -> "a"
      [] c = "B" -> "b"
      [] OTHER -> c

Lower(s) == [i \in 1..Len(s) |-> LowerChar(s[i])]

\* SQL LIKE: % matches any run of characters, _ matches exactly one.
RECURSIVE LikeMatch(_, _)
LikeMatch(p, s) ==
    IF p = <<>> THEN s = <<>>
    ELSE IF Head(p) = "%"
         THEN LikeMatch(Tail(p), s) \/ (s # <<>> /\ LikeMatch(p, Tail(s)))
         ELSE /\ s # <<>>
              /\ (Head(p) = "_" \/ Head(p) = Head(s))
              /\ LikeMatch(Tail(p), Tail(s))

\* column ILIKE pattern: LIKE on the lower-cased operands; NULL never matches
ILike(value, pattern) ==
    /\ ~IsNone(value)
    /\ LikeMatch(Lower(pattern), Lower(Get(value)))

(***************************************************************************)
(* Mapped classes.  A class is its __dict__ in definition order; an entry  *)
(* is a column attribute, a relationship attribute or a plain attribute.   *)
(* SQLAlchemy maps a class only when it has at least one primary-key       *)
(* column, and the mapper's and the table's primary key are the columns    *)
(* declared primary_key, in table order.                                   *)
(***************************************************************************)
Attr(key, kind, column, pk, type) ==
    [key |-> key, kind |-> kind, column |-> column, primary_key |-> pk, type |-> type]

AttrTablename == Attr("__tablename__", "plain", "", FALSE, "")
AttrId == Attr("id", "column", "id", TRUE, "int")
AttrCode == Attr("code", "column", "code", TRUE, "str")
AttrTitle == Attr("title", "column", "title", FALSE, "str")
AttrPublished == Attr("published", "column", "published", FALSE, "bool")
AttrCover == Attr("cover", "column", "cover", FALSE, "file")
AttrTags == Attr("tags", "relationship", "", FALSE, "")

Column(a) == [name |-> a.column, type |-> a.type, primary_key |-> a.primary_key]
NoColumn == [name |-> "", type |-> "", primary_key |-> FALSE]

\* isinstance(getattr(model, key), InstrumentedAttribute)
IsInstrumentedAttribute(model, a) ==
    model.mapped /\ a.kind \in {"column", "relationship"}

IsPkColumnAttr(a) == a.kind = "column" /\ a.primary_key

\* mapper.primary_key and mapper.local_table.primary_key
PrimaryKey(model) ==
    LET pkAttrs == SelectSeq(model.dict, IsPkColumnAttr)
    IN  [i \in 1..Len(pkAttrs) |-> Column(pkAttrs[i])]

\* the Post model the request handlers below work on
PostModel ==
    [name |-> "Post", mapped |-> TRUE,
     dict |-> <<AttrTablename, AttrId, AttrTitle, AttrPublished, AttrCover, AttrTags>>]

\* the model of the related objects
TagModel == [name |-> "Tag", mapped |-> TRUE, dict |-> <<AttrTablename, AttrId>>]

(***************************************************************************)
(* Fields.  converters.convert_fields_list, helpers.normalize_list,        *)
(* helpers.extract_column_python_type and BaseModelView are not part of    *)
(* view.py; they are modelled by what view.py relies on.                   *)
(***************************************************************************)
Field(name, type, searchable) ==
    [name |-> name, type |-> type, searchable |-> searchable]

IsRelationField(f) == f.type \in {"HasOne", "HasMany"}
IsFileField(f) == f.type \in {"FileField", "ImageField"}

FieldTypeOf(a) ==
    CASE a.kind = "relationship" -> "HasMany"
      [] a.type = "int" -> "IntegerField"
      [] a.type = "bool" -> "BooleanField"
      [] a.type = "file" -> "FileField"
      [] OTHER -> "StringField"

\* ModelConverter.convert_fields_list: a key becomes the field of its
\* attribute, a field object is kept as it is
convert_fields_list(fields, model) ==
    [i \in 1..Len(fields) |->
        IF fields[i].type # ""
        THEN fields[i]
        ELSE LET a == CHOOSE x \in SeqToSet(model.dict) : x.key = fields[i].name
             IN  Field(a.key, FieldTypeOf(a), FALSE)]

\* column.type.python_type
extract_column_python_type(column) == column.type

\* BaseModelView.__init__: a field is searchable when searchable_fields names it
BaseModelViewInit(fields, searchable_fields) ==
    [i \in 1..Len(fields) |->
        [fields[i] EXCEPT !.searchable = fields[i].name \in searchable_fields]]

\* the class attributes a subclass of ModelView may set
DefaultConfig ==
    [fields |-> None, searchable_fields |-> None,
     sortable_field_mapping |-> <<>>, list_filter |-> FALSE, count_filter |-> FALSE]

KeyField(key) == Field(key, "", FALSE)

(***************************************************************************)
(* ModelView.__init__ and _setup_primary_key                               *)
(***************************************************************************)
\* A faulty variant: the first instrumented attribute, primary key or not.
setup_primary_key_first(model, default) ==
    LET hits == SelectSeq(model.dict, LAMBDA a : IsInstrumentedAttribute(model, a))
    IN  IF hits = <<>> THEN default ELSE Some(hits[1].key)

\* pk_attr: the key of the first instrumented attribute of the class __dict__
\* whose primary_key is true; left as it was when there is none
setup_primary_key(model, default) ==
    LET hits == SelectSeq(model.dict,
                    LAMBDA a : IsInstrumentedAttribute(model, a) /\ a.primary_key)
    IN  IF hits = <<>> THEN default ELSE Some(hits[1].key)

FailedView(error) ==
    [error |-> error, model |-> "", pk_column |-> NoColumn, pk_attr |-> None,
     pk_coerce |-> "", fields |-> <<>>, searchable_fields |-> {},
     sortable_field_mapping |-> <<>>, list_filter |-> FALSE, count_filter |-> FALSE]

ModelViewInit(model, cfg) ==
    IF ~model.mapped THEN FailedView("InvalidModelError")
    ELSE IF Len(PrimaryKey(model)) # 1 THEN FailedView("AssertionError")
    ELSE
      LET pk_column == PrimaryKey(model)[1]
          instrumented == SelectSeq(model.dict,
                              LAMBDA a : IsInstrumentedAttribute(model, a))
          declared == IF IsNone(cfg.fields) \/ Get(cfg.fields) = <<>>
                      THEN [i \in 1..Len(instrumented) |-> KeyField(instrumented[i].key)]
                      ELSE Get(cfg.fields)
          fields == convert_fields_list(declared, model)
          plain == SelectSeq(fields,
                       LAMBDA f : ~(IsRelationField(f) \/ IsFileField(f)))
          default_list == {plain[i].name : i \in 1..Len(plain)}
          searchable == IF ~IsNone(cfg.searchable_fields)
                        THEN Get(cfg.searchable_fields) ELSE default_list
      IN  [error |-> "none",
           model |-> model.name,
           pk_column |-> pk_column,
           pk_attr |-> setup_primary_key(model, None),
           pk_coerce |-> extract_column_python_type(pk_column),
           fields |-> BaseModelViewInit(fields, searchable),
           searchable_fields |-> searchable,
           sortable_field_mapping |-> cfg.sortable_field_mapping,
           list_filter |-> cfg.list_filter,
           count_filter |-> cfg.count_filter]

(***************************************************************************)
(* The database.  A table is a function from the stored primary keys to    *)
(* rows [title, published, tags, cover]; tags is the set of Tag keys the   *)
(* post is related to (Post.tags, a collection relationship) and cover is  *)
(* a file column.  The Tag table is not changed by this view.              *)
(***************************************************************************)
TagPks == {1, 2}
TagName == [t \in TagPks |-> IF t = 1 THEN <<"b">> ELSE <<"a">>]

Row(title, published, tags, cover) ==
    [title |-> title, published |-> published, tags |-> tags, cover |-> cover]

BlankRow == Row(None, FALSE, {}, None)
EmptyTable == [p \in {} |-> BlankRow]

RECURSIVE IntToStr(_)
IntToStr(n) ==
    IF n < 10 THEN <<Digits[n + 1]>>
    ELSE Append(IntToStr(n \div 10), Digits[(n % 10) + 1])

\* CAST(attr AS VARCHAR) of a column attribute of the row with key pk
CastString(attr, pk, row) ==
    CASE attr = "id" -> Some(IntToStr(pk))
      [] attr = "title" -> row.title
      [] attr = "published" -> Some(IF row.published THEN <<"1">> ELSE <<"0">>)

(***************************************************************************)
(* Select statements and SQL expressions                                   *)
(***************************************************************************)
Clause(op, attr, value, clauses) ==
    [op |-> op, attr |-> attr, value |-> value, clauses |-> clauses]

IsTrue(attr) == Clause("is_true", attr, None, <<>>)
Eq(attr, value) == Clause("eq", attr, value, <<>>)
ILikeClause(attr, pattern) == Clause("ilike", attr, Some(pattern), <<>>)
Or(clauses) == Clause("or", "", None, clauses)
PkEq(pk) == Clause("pk_eq", "", Some(pk), <<>>)
PkIn(pks) == Clause("pk_in", "", Some(pks), <<>>)

\* select(entity): entity is "model" or "count"
Select(entity, table) ==
    [entity |-> entity, table |-> table, where |-> <<>>, joins |-> <<>>,
     order_by |-> <<>>, offset |-> 0, limit |-> None, options |-> <<>>]

Where(stmt, clause) == [stmt EXCEPT !.where = Append(@, clause)]
Offset(stmt, n) == [stmt EXCEPT !.offset = n]
Limit(stmt, n) == [stmt EXCEPT !.limit = Some(n)]
OuterJoin(stmt, attr) == [stmt EXCEPT !.joins = Append(@, attr)]
Options(stmt, attr) == [stmt EXCEPT !.options = Append(@, attr)]
\* Select.order_by(None) cancels the ORDER BY clauses given so far
OrderBy(stmt, clause) ==
    IF IsNone(clause) THEN [stmt EXCEPT !.order_by = <<>>]
    ELSE [stmt EXCEPT !.order_by = Append(@, Get(clause))]

\* an or_() / and_() of no clauses renders as nothing, and a WHERE of
\* nothing is left out of the statement
RendersBlank(clause) == clause.op = "or" /\ clause.clauses = <<>>
WhereCriteria(stmt) == SelectSeq(stmt.where, LAMBDA c : ~RendersBlank(c))

RECURSIVE Eval(_, _, _)
Eval(clause, pk, row) ==
    CASE clause.op = "is_true" -> row.published
      [] clause.op = "eq" ->
            /\ ~IsNone(CastString(clause.attr, pk, row))
            /\ CastString(clause.attr, pk, row) = clause.value
      [] clause.op = "ilike" ->
            ILike(CastString(clause.attr, pk, row), Get(clause.value))
      [] clause.op = "or" ->
            \E i \in 1..Len(clause.clauses) : Eval(clause.clauses[i], pk, row)
      [] clause.op = "pk_eq" -> pk = Get(clause.value)
      [] clause.op = "pk_in" -> pk \in Get(clause.value)

Selected(stmt, pk, row) ==
    LET cs == WhereCriteria(stmt)
    IN  \A i \in 1..Len(cs) : Eval(cs[i], pk, row)

(***************************************************************************)
(* Executing a statement.  Rows come in key order; each outer join on      *)
(* Post.tags gives one row per related tag (one row with no tag when there *)
(* is none); WHERE, ORDER BY, OFFSET and LIMIT apply to the joined rows.   *)
(* NULL sorts before every value and a sort keeps the order of ties.       *)
(***************************************************************************)
CharCode(c) ==
    CASE c = "%" -> 37 [] c = "1" -> 49 [] c = "2" -> 50 [] c = "A" -> 65
      [] c = "B" -> 66 [] c = "_" -> 95 [] c = "a" -> 97 [] c = "b" -> 98
      [] OTHER -> 0

StrKey(str) == [i \in 1..Len(str) |-> CharCode(str[i])]

RECURSIVE CmpSeq(_, _)
CmpSeq(a, b) ==
    IF a = <<>> THEN (IF b = <<>> THEN 0 ELSE -1)
    ELSE IF b = <<>> THEN 1
    ELSE IF Head(a) < Head(b) THEN -1
    ELSE IF Head(a) > Head(b) THEN 1
    ELSE CmpSeq(Tail(a), Tail(b))

CmpKey(a, b) ==
    IF IsNone(a) THEN (IF IsNone(b) THEN 0 ELSE -1)
    ELSE IF IsNone(b) THEN 1
    ELSE CmpSeq(Get(a), Get(b))

JoinedRow(pk, tag) == [pk |-> pk, tag |-> tag]

\* the value a joined row has for a sort expression
SortKey(attr, jr, table) ==
    CASE attr = "id" -> Some(<<jr.pk>>)
      [] attr = "title" ->
            IF IsNone(table[jr.pk].title) THEN None
            ELSE Some(StrKey(Get(table[jr.pk].title)))
      [] attr = "published" -> Some(<<IF table[jr.pk].published THEN 1 ELSE 0>>)
      [] attr = "tags" -> IF IsNone(jr.tag) THEN None ELSE Some(<<1>>)
      [] attr = "Tag.name" ->
            IF IsNone(jr.tag) THEN None ELSE Some(StrKey(TagName[Get(jr.tag)]))

RECURSIVE CmpRows(_, _, _, _)
CmpRows(a, b, order_by, table) ==
    IF order_by = <<>> THEN 0
    ELSE LET c == CmpKey(SortKey(Head(order_by).attr, a, table),
                         SortKey(Head(order_by).attr, b, table))
             d == IF Head(order_by).desc THEN 0 - c ELSE c
         IN  IF d # 0 THEN d ELSE CmpRows(a, b, Tail(order_by), table)

RECURSIVE InsertRow(_, _, _, _)
InsertRow(sorted, r, order_by, table) ==
    IF sorted = <<>> THEN <<r>>
    ELSE IF CmpRows(r, Head(sorted), order_by, table) < 0
         THEN <<r>> \o sorted
         ELSE <<Head(sorted)>> \o InsertRow(Tail(sorted), r, order_by, table)

RECURSIVE SortRows(_, _, _)
SortRows(rows, order_by, table) ==
    IF rows = <<>> THEN <<>>
    ELSE InsertRow(SortRows(SubSeq(rows, 1, Len(rows) - 1), order_by, table),
                   rows[Len(rows)], order_by, table)

RECURSIVE JoinRows(_, _, _)
JoinRows(pks, joins, table) ==
    IF pks = <<>> THEN <<>>
    ELSE LET pk == Head(pks)
             tags == SetToSortedSeq(table[pk].tags)
             mine == IF joins = <<>> \/ tags = <<>>
                     THEN <<JoinedRow(pk, None)>>
                     ELSE [i \in 1..Len(tags) |-> JoinedRow(pk, Some(tags[i]))]
         IN  mine \o JoinRows(Tail(pks), joins, table)

\* Result.unique(): each object once, at its first place
RECURSIVE Unique(_)
Unique(s) ==
    IF s = <<>> THEN <<>>
    ELSE LET front == Unique(SubSeq(s, 1, Len(s) - 1))
         IN  IF s[Len(s)] \in SeqToSet(front) THEN front
             ELSE Append(front, s[Len(s)])

Drop(s, n) == IF n >= Len(s) THEN <<>> ELSE SubSeq(s, n + 1, Len(s))
Take(s, n) == IF n >= Len(s) THEN s ELSE SubSeq(s, 1, n)

\* the same relationship joined twice names its table twice: the database
\* rejects the statement
Rejected(stmt) ==
    \E i, j \in 1..Len(stmt.joins) : i # j /\ stmt.joins[i] = stmt.joins[j]

\* OFFSET and LIMIT
Page(stmt, rows) ==
    IF IsNone(stmt.limit) THEN Drop(rows, stmt.offset)
    ELSE Take(Drop(rows, stmt.offset), Get(stmt.limit))

\* Result.scalars(): the object of each row, here its key
Scalars(rows) == [i \in 1..Len(rows) |-> rows[i].pk]

\* the rows of the statement over the Post table, as a sequence of keys
ResultRows(stmt, table) ==
    Scalars(Page(stmt,
        SortRows(SelectSeq(JoinRows(SetToSortedSeq(DOMAIN table), stmt.joins, table),
                           LAMBDA jr : Selected(stmt, jr.pk, table[jr.pk])),
                 stmt.order_by, table)))

\* the rows of a statement over the Tag table (Tag has no filter but its key)
TagRows(stmt) ==
    SetToSortedSeq({t \in TagPks : Selected(stmt, t, BlankRow)})

Rows(stmt, table) ==
    IF stmt.table = "tag" THEN TagRows(stmt) ELSE ResultRows(stmt, table)

(***************************************************************************)
(* A run of one handler.  Each deployment serves the request with a fresh  *)
(* session over its own database.  The run keeps                           *)
(*   trace    the session calls and hook calls issued, in order, each with *)
(*            its argument, how it was dispatched and whether it raised    *)
(*   exc      the exception that is propagating ("none" when there is none)*)
(*   cause    the exception an ActionFailed was raised from                *)
(*   ret      the value returned                                           *)
(*   start    the committed rows when the request arrived                  *)
(*   table    the committed rows                                           *)
(*   new, identity, deleted   the session's unit of work                   *)
(*   result, obj, data        the handler's local variables                *)
(* An exception skips every later step of the handler up to its except     *)
(* clause: each step leaves a run that is already raising untouched.       *)
(***************************************************************************)
Kinds == {"sync", "async"}
IsAsyncSession(k) == k = "async"

NoExc == "none"
\* self.model(): a transient object, every attribute unset
NewObj == [pk |-> None, row |-> BlankRow]
Obj(pk, row) == [pk |-> Some(pk), row |-> row]
NoData == [title |-> None, published |-> FALSE, tags |-> None,
           cover |-> <<None, FALSE>>]

NewRun(table) ==
    [trace |-> <<>>, exc |-> NoExc, cause |-> NoExc, ret |-> None,
     start |-> table, table |-> table, new |-> <<>>, identity |-> EmptyTable, deleted |-> {},
     result |-> <<>>, obj |-> None, data |-> NoData]

Raising(r) == r.exc # NoExc
Raise(r, exc) == [r EXCEPT !.exc = exc]

Event(call, arg, via, ok) == [call |-> call, arg |-> arg, via |-> via, ok |-> ok]

SessionCalls == {"execute", "add", "delete", "commit", "refresh"}
BeforeHooks == {"before_create", "before_edit", "before_delete"}
AfterHooks == {"after_create", "after_edit", "after_delete"}

\* the step of a handler the environment of a request can make raise
FaultClass(call) ==
    CASE call \in BeforeHooks -> "before"
      [] call \in AfterHooks -> "after"
      [] OTHER -> call

Calls(r, class) ==
    Len(SelectSeq(r.trace, LAMBDA e : FaultClass(e.call) = class))

\* the env of a request makes the n-th call of one class raise exc
Fails(rq, r, call) ==
    /\ rq.env.at = FaultClass(call)
    /\ Calls(r, FaultClass(call)) = rq.env.n - 1

NextPk(table) ==
    IF DOMAIN table = {} THEN 1
    ELSE (CHOOSE p \in DOMAIN table : \A q \in DOMAIN table : q <= p) + 1

\* the rows of a table after the pending rows are inserted
RECURSIVE Insert(_, _)
Insert(table, rows) ==
    IF rows = <<>> THEN table
    ELSE LET pk == NextPk(table)
         IN  Insert([p \in DOMAIN table \cup {pk} |->
                        IF p = pk THEN Head(rows) ELSE table[p]], Tail(rows))

\* Session.commit: flush the unit of work
Flush(r) ==
    LET kept == DOMAIN r.table \ r.deleted
        updated == [p \in kept |->
                       IF p \in DOMAIN r.identity THEN r.identity[p] ELSE r.table[p]]
    IN  Insert(updated, r.new)

\* Session.execute: the rows, and the Post objects among them enter the
\* identity map
Executed(r, stmt, rows) ==
    [r EXCEPT !.result = rows,
              !.identity =
                  IF stmt.table = "post" /\ stmt.entity = "model"
                  THEN [p \in DOMAIN r.identity \cup SeqToSet(rows) |->
                           IF p \in DOMAIN r.identity THEN r.identity[p]
                           ELSE r.table[p]]
                  ELSE @]

\* Session.commit: the rows are written and the new object gets its key
Committed(r, table) ==
    [r EXCEPT !.table = table, !.new = <<>>, !.deleted = {},
              !.identity = table,
              !.obj = IF ~IsNone(r.obj) /\ IsNone(Get(r.obj).pk) /\ r.new # <<>>
                      THEN Some([Get(r.obj) EXCEPT !.pk = Some(NextPk(r.table))])
                      ELSE r.obj]

\* what a call does to the session once it has not raised
Effect(r, call, arg) ==
    CASE call = "execute" -> Executed(r, arg, Rows(arg, r.table))
      [] call = "add" ->
            IF IsNone(arg.pk) THEN [r EXCEPT !.new = Append(@, arg.row)] ELSE r
      [] call = "delete" -> [r EXCEPT !.deleted = @ \cup {Get(arg.pk)}]
      [] call = "commit" -> Committed(r, Flush(r))
      [] call = "refresh" ->
            [r EXCEPT !.obj = Some(Obj(Get(arg.pk), r.table[Get(arg.pk)]))]

\* one call on the session, dispatched via "thread" (anyio.to_thread.run_sync),
\* "await" (awaited on the loop) or "direct" (a plain call on the loop)
SessionCall(rq, r, via, call, arg) ==
    IF Raising(r) THEN r
    ELSE IF Fails(rq, r, call) \/ (call = "execute" /\ Rejected(arg))
         THEN Raise([r EXCEPT !.trace = Append(@, Event(call, arg, via, FALSE)),
                              !.new = IF call = "commit" THEN <<>> ELSE @,
                              !.deleted = IF call = "commit" THEN {} ELSE @,
                              !.identity = IF call = "commit" THEN EmptyTable ELSE @],
                    IF Fails(rq, r, call) THEN rq.env.exc ELSE "SQLAlchemyError")
         ELSE Effect([r EXCEPT !.trace = Append(@, Event(call, arg, via, TRUE))],
                     call, arg)

\* await self.<hook>(request, ...): a coroutine of the view run on the loop
Hook(rq, r, name, arg) ==
    IF Raising(r) THEN r
    ELSE IF Fails(rq, r, name)
         THEN Raise([r EXCEPT !.trace = Append(@, Event(name, arg, "await", FALSE))],
                    rq.env.exc)
         ELSE [r EXCEPT !.trace = Append(@, Event(name, arg, "await", TRUE))]

(***************************************************************************)
(* Query building                                                          *)
(***************************************************************************)
TableOf(vw) == IF vw.model = "Tag" THEN "tag" ELSE "post"
ModelOf(vw) == IF vw.model = "Tag" THEN TagModel ELSE PostModel

\* BaseModelView.get_fields_list: the fields shown for an action; the
\* primary key is left out of the create and edit forms
get_fields_list(vw, action) ==
    SelectSeq(vw.fields,
        LAMBDA f : ~(action \in {"CREATE", "EDIT"} /\ Some(f.name) = vw.pk_attr))

\* getattr(self.model, key, None)
HasAttr(model, key) == \E i \in 1..Len(model.dict) : model.dict[i].key = key
GetAttr(model, key) ==
    model.dict[CHOOSE i \in 1..Len(model.dict) : model.dict[i].key = key]

get_list_query(vw) ==
    IF vw.list_filter
    THEN Where(Select("model", TableOf(vw)), IsTrue("published"))
    ELSE Select("model", TableOf(vw))

get_count_query(vw) ==
    IF vw.count_filter
    THEN Where(Select("count", TableOf(vw)), IsTrue("published"))
    ELSE Select("count", TableOf(vw))

SearchTypes ==
    {"StringField", "TextAreaField", "EmailField", "URLField", "PhoneField",
     "ColorField"}

get_search_query(vw, term) ==
    LET fields == SelectSeq(get_fields_list(vw, "LIST"),
                      LAMBDA f : f.searchable /\ f.type \in SearchTypes)
    IN  Or([i \in 1..Len(fields) |->
               ILikeClause(fields[i].name, <<"%">> \o term \o <<"%">>)])

build_full_text_search_query(vw, term) == get_search_query(vw, term)

\* helpers.build_query: the filter a where-dict stands for
build_query(where) == Eq(where.attr, where.value)

(***************************************************************************)
(* build_order_clauses.  An entry of order_list is a string, kept as its   *)
(* tokens: words and " " for a run of whitespace.                          *)
(***************************************************************************)
RECURSIVE LStrip(_)
LStrip(s) == IF s # <<>> /\ Head(s) = " " THEN LStrip(Tail(s)) ELSE s

RECURSIVE RStrip(_)
RStrip(s) ==
    IF s # <<>> /\ s[Len(s)] = " " THEN RStrip(SubSeq(s, 1, Len(s) - 1)) ELSE s

Strip(s) == LStrip(RStrip(s))

\* str.split(maxsplit=1) of a stripped string: the first word, then the rest
SplitOnce(s) ==
    IF s = <<>> THEN <<>>
    ELSE IF Len(s) = 1 THEN <<<<s[1]>>>>
    ELSE <<<<s[1]>>, LStrip(Tail(s))>>

LowerWord(w) ==
    CASE w \in {"DESC", "Desc", "desc"} -> "desc"
      [] w \in {"ASC", "asc"} -> "asc"
      [] OTHER -> w

OrderClause(attr, desc) == [attr |-> attr, desc |-> desc]

\* one pass of the loop body; acc is [stmt, exc]
OrderStep(vw, acc, value) ==
    IF acc.exc # NoExc THEN acc
    ELSE
      LET parts == SplitOnce(Strip(value))
      IN  IF Len(parts) # 2 THEN [acc EXCEPT !.exc = "ValueError"]
          ELSE
            LET attr_key == parts[1][1]
                order == parts[2]
                model == ModelOf(vw)
                has == HasAttr(model, attr_key)
                desc == Len(order) = 1 /\ LowerWord(order[1]) = "desc"
            IN  IF has /\ GetAttr(model, attr_key).kind = "plain"
                THEN [acc EXCEPT !.exc = "AttributeError"]
                ELSE
                  LET joined == IF has /\ GetAttr(model, attr_key).kind = "relationship"
                                THEN OuterJoin(acc.stmt, attr_key) ELSE acc.stmt
                      sorting_attr ==
                          IF attr_key \in DOMAIN vw.sortable_field_mapping
                          THEN Some(vw.sortable_field_mapping[attr_key])
                          ELSE IF has THEN Some(attr_key) ELSE None
                  IN  IF desc /\ IsNone(sorting_attr)
                      THEN [acc EXCEPT !.exc = "ValueError"]
                      ELSE [acc EXCEPT !.stmt =
                              OrderBy(joined,
                                  IF IsNone(sorting_attr) THEN None
                                  ELSE Some(OrderClause(Get(sorting_attr), desc)))]

RECURSIVE OrderLoop(_, _, _)
OrderLoop(vw, acc, order_list) ==
    IF order_list = <<>> THEN acc
    ELSE OrderLoop(vw, OrderStep(vw, acc, Head(order_list)), Tail(order_list))

build_order_clauses(vw, order_list, stmt) ==
    OrderLoop(vw, [stmt |-> stmt, exc |-> NoExc], order_list)

(***************************************************************************)
(* Primary-key coercion: self._pk_coerce is the column's python type, so   *)
(* int(pk) for an integer key; int() of a string that is no number raises  *)
(* ValueError.                                                             *)
(***************************************************************************)
IsNumber(raw) == raw # <<>> /\ \A i \in 1..Len(raw) : IsDigit(raw[i])

RECURSIVE ParseInt(_)
ParseInt(raw) ==
    IF raw = <<>> THEN 0
    ELSE 10 * ParseInt(SubSeq(raw, 1, Len(raw) - 1)) + DigitValue(raw[Len(raw)])

CanCoerce(vw, raw) == vw.pk_coerce # "int" \/ IsNumber(raw)
pk_coerce(vw, raw) == IF vw.pk_coerce = "int" THEN ParseInt(raw) ELSE raw

RECURSIVE WithJoinedLoads(_, _)
WithJoinedLoads(stmt, fields) ==
    IF fields = <<>> THEN stmt
    ELSE WithJoinedLoads(
             IF IsRelationField(Head(fields))
             THEN Options(stmt, Head(fields).name) ELSE stmt,
             Tail(fields))

(***************************************************************************)
(* The read handlers.  Each takes the run so far and gives the run after   *)
(* it; the rows it got are left in r.result.                               *)
(***************************************************************************)
\* .scalar_one()
ScalarOne(r) == IF Raising(r) THEN r ELSE [r EXCEPT !.ret = Some(Len(r.result))]

\* .scalars().unique().all() and .scalars().unique().one_or_none()
UniqueAll(r) == IF Raising(r) THEN r ELSE [r EXCEPT !.result = Unique(r.result)]

\* the where argument of count and find_all, applied to the statement
WithWhere(vw, where, stmt) ==
    IF where.kind = "none" THEN stmt
    ELSE IF where.kind = "dict" THEN Where(stmt, build_query(where))
    ELSE Where(stmt, build_full_text_search_query(vw, where.term))

\* A faulty variant: a search term is dropped, only a dict filters.
CountStatement_no_search(vw, where) ==
    IF where.kind = "dict" THEN Where(get_count_query(vw), build_query(where))
    ELSE get_count_query(vw)

CountStatement(vw, where) == WithWhere(vw, where, get_count_query(vw))

\* (await session.execute(stmt)) for an AsyncSession,
\* (await anyio.to_thread.run_sync(session.execute, stmt)) otherwise
Execute(k, rq, r, stmt) ==
    IF IsAsyncSession(k)
    THEN SessionCall(rq, r, "await", "execute", stmt)
    ELSE SessionCall(rq, r, "thread", "execute", stmt)

count(k, vw, rq, r) ==
    ScalarOne(Execute(k, rq, r, CountStatement(vw, rq.where)))

\* stmt = self.get_list_query().offset(skip), limited when limit > 0
ListPage(vw, skip, limit) ==
    IF limit > 0 THEN Limit(Offset(get_list_query(vw), skip), limit)
    ELSE Offset(get_list_query(vw), skip)

\* the statement of find_all, or the exception build_order_clauses raised
ListStatement(vw, rq) ==
    build_order_clauses(vw, rq.order_by,
        WithWhere(vw, rq.where, ListPage(vw, rq.skip, rq.limit)))

FindAllBuilt(k, vw, rq, r, built) ==
    IF built.exc # NoExc THEN Raise(r, built.exc)
    ELSE UniqueAll(Execute(k, rq, r,
             WithJoinedLoads(built.stmt, get_fields_list(vw, "LIST"))))

find_all(k, vw, rq, r) ==
    IF Raising(r) THEN r ELSE FindAllBuilt(k, vw, rq, r, ListStatement(vw, rq))

find_by_pk(k, vw, rq, r, pk) ==
    IF Raising(r) THEN r
    ELSE IF ~CanCoerce(vw, pk) THEN Raise(r, "ValueError")
    ELSE UniqueAll(Execute(k, rq, r,
             WithJoinedLoads(
                 Where(Select("model", TableOf(vw)), PkEq(pk_coerce(vw, pk))),
                 get_fields_list(vw, rq.action))))

find_by_pks(k, vw, rq, r, pks) ==
    IF Raising(r) THEN r
    ELSE IF \E i \in 1..Len(pks) : ~CanCoerce(vw, pks[i]) THEN Raise(r, "ValueError")
    ELSE UniqueAll(Execute(k, rq, r,
             WithJoinedLoads(
                 Where(Select("model", TableOf(vw)),
                       PkIn({pk_coerce(vw, pks[i]) : i \in 1..Len(pks)})),
                 get_fields_list(vw, rq.action))))

(***************************************************************************)
(* The write handlers                                                      *)
(***************************************************************************)
TagView == ModelViewInit(TagModel, DefaultConfig)

\* BaseModelView._find_foreign_model: the view of the related model
find_foreign_model(field) == TagView

ObjOf(r) == IF IsNone(r.obj) THEN NewObj ELSE Get(r.obj)

\* arranged_data[field.name] = the related objects found
Arranged(r, f) ==
    IF Raising(r) THEN r
    ELSE [r EXCEPT !.data[f.name] =
             IF f.type = "HasOne"
             THEN (IF r.result = <<>> THEN None ELSE Some(r.result[1]))
             ELSE Some(r.result)]

ArrangeField(k, rq, r, f, value) ==
    IF IsRelationField(f) /\ ~IsNone(value)
    THEN Arranged(IF f.type = "HasOne"
                  THEN find_by_pk(k, find_foreign_model(f), rq, r, Get(value))
                  ELSE find_by_pks(k, find_foreign_model(f), rq, r, Get(value)),
                  f)
    ELSE [r EXCEPT !.data[f.name] = value]

RECURSIVE ArrangeLoop(_, _, _, _, _)
ArrangeLoop(k, rq, r, fields, data) ==
    IF fields = <<>> \/ Raising(r) THEN r
    ELSE ArrangeLoop(k, rq,
             ArrangeField(k, rq, r, Head(fields), data[Head(fields).name]),
             Tail(fields), data)

arrange_data(k, vw, rq, r, data) ==
    ArrangeLoop(k, rq, r, get_fields_list(vw, rq.action), data)

\* await self.validate(request, data)
validate(rq, r) == Hook(rq, r, "validate", r.data)

\* the row of an object after setattr(obj, name, value)
RowWith(row, name, value) ==
    [row EXCEPT ![name] = IF name = "tags" THEN SeqToSet(Get(value)) ELSE value]

\* setattr(obj, name, value) on the object of the run
SetAttr(r, name, value) ==
    IF Raising(r) THEN r
    ELSE IF IsNone(r.obj) THEN Raise(r, "AttributeError")
    ELSE IF name = "tags" /\ IsNone(value) THEN Raise(r, "TypeError")
    ELSE [r EXCEPT !.obj = Some([Get(r.obj) EXCEPT
                                    !.row = RowWith(Get(r.obj).row, name, value)]),
                   !.identity =
                       IF IsNone(Get(r.obj).pk) THEN @
                       ELSE [@ EXCEPT ![Get(Get(r.obj).pk)] =
                                RowWith(Get(r.obj).row, name, value)]]

PopulateField(r, f, value) ==
    IF IsFileField(f)
    THEN (IF value[2] THEN SetAttr(r, f.name, None)
          ELSE IF ~IsNone(value[1]) THEN SetAttr(r, f.name, value[1])
          ELSE r)
    ELSE SetAttr(r, f.name, value)

RECURSIVE PopulateLoop(_, _)
PopulateLoop(r, fields) ==
    IF fields = <<>> \/ Raising(r) THEN r
    ELSE PopulateLoop(PopulateField(r, Head(fields), r.data[Head(fields).name]),
                      Tail(fields))

populate_obj(vw, rq, r, obj) ==
    IF Raising(r) THEN r
    ELSE PopulateLoop([r EXCEPT !.obj = obj], get_fields_list(vw, rq.action))

\* handle_exception always raises: FormValidationError for a sqlalchemy_file
\* ValidationError (when that library can be imported), else exc itself
handle_exception(rq, r) ==
    IF Raising(r) /\ rq.env.lib /\ r.exc = "FileValidationError"
    THEN Raise(r, "FormValidationError")
    ELSE r

Return(r, value) == IF Raising(r) THEN r ELSE [r EXCEPT !.ret = value]
ReturnObj(r) == Return(r, r.obj)
ReturnResult(r) == Return(r, r.result)

\* session.add(obj): a plain call, whatever the session is
AddObj(rq, r) == SessionCall(rq, r, "direct", "add", ObjOf(r))

\* A faulty variant: the commit is a plain call on the loop.
Commit_on_loop(rq, r, via) == SessionCall(rq, r, "direct", "commit", None)

Commit(rq, r, via) == SessionCall(rq, r, via, "commit", None)
Refresh(rq, r, via) == SessionCall(rq, r, via, "refresh", ObjOf(r))

\* self.model() and _populate_obj
CreatePopulate(vw, rq, r) == populate_obj(vw, rq, r, Some(NewObj))

\* await self.before_create(request, data, obj), and before_edit
Before(rq, name, r) == Hook(rq, r, name, <<r.data, ObjOf(r)>>)
\* await self.after_create(request, obj), and after_edit
After(rq, name, r) == Hook(rq, r, name, ObjOf(r))

CreateCommit(k, rq, r) ==
    IF IsAsyncSession(k)
    THEN Refresh(rq, Commit(rq, r, "await"), "await")
    ELSE Refresh(rq, Commit(rq, r, "thread"), "thread")

\* A faulty variant: the form is validated after the object is added.
create_validate_late(k, vw, rq, r) ==
    handle_exception(rq,
        ReturnObj(
        After(rq, "after_create",
        CreateCommit(k, rq,
        Before(rq, "before_create",
        validate(rq,
        AddObj(rq,
        CreatePopulate(vw, rq,
        arrange_data(k, vw, rq, r, rq.data)))))))))

create(k, vw, rq, r) ==
    handle_exception(rq,
        ReturnObj(
        After(rq, "after_create",
        CreateCommit(k, rq,
        Before(rq, "before_create",
        AddObj(rq,
        CreatePopulate(vw, rq,
        validate(rq,
        arrange_data(k, vw, rq, r, rq.data)))))))))

\* obj = await self.find_by_pk(request, pk); await self._populate_obj(...)
FoundObj(r) ==
    IF Raising(r) \/ r.result = <<>> THEN None
    ELSE Some(Obj(r.result[1], r.identity[r.result[1]]))

EditPopulate(vw, rq, r) == populate_obj(vw, rq, r, FoundObj(r))

\* A faulty variant: the synchronous branch does not refresh.
EditCommit_sync_no_refresh(k, rq, r) ==
    IF IsAsyncSession(k)
    THEN Refresh(rq, Commit(rq, r, "await"), "await")
    ELSE Commit(rq, r, "thread")

EditCommit(k, rq, r) ==
    IF IsAsyncSession(k)
    THEN Refresh(rq, Commit(rq, r, "await"), "await")
    ELSE Refresh(rq, Commit(rq, r, "thread"), "thread")

edit(k, vw, rq, r) ==
    handle_exception(rq,
        ReturnObj(
        After(rq, "after_edit",
        EditCommit(k, rq,
        Before(rq, "before_edit",
        AddObj(rq,
        EditPopulate(vw, rq,
        find_by_pk(k, vw, rq,
            validate(rq, arrange_data(k, vw, rq, r, rq.data)),
            rq.pk))))))))

\* A faulty variant: the object is deleted before its hook runs.
RECURSIVE DeleteLoop_delete_first(_, _, _, _)
DeleteLoop_delete_first(rq, r, via, objs) ==
    IF objs = <<>> \/ Raising(r) THEN r
    ELSE DeleteLoop_delete_first(rq,
             Hook(rq, SessionCall(rq, r, via, "delete", Head(objs)),
                  "before_delete", Head(objs)),
             via, Tail(objs))

\* for obj in objs: await self.before_delete(request, obj); session.delete(obj)
RECURSIVE DeleteLoop(_, _, _, _)
DeleteLoop(rq, r, via, objs) ==
    IF objs = <<>> \/ Raising(r) THEN r
    ELSE DeleteLoop(rq,
             SessionCall(rq, Hook(rq, r, "before_delete", Head(objs)),
                         via, "delete", Head(objs)),
             via, Tail(objs))

\* for obj in objs: await self.after_delete(request, obj)
RECURSIVE AfterDeleteLoop(_, _, _)
AfterDeleteLoop(rq, r, objs) ==
    IF objs = <<>> \/ Raising(r) THEN r
    ELSE AfterDeleteLoop(rq, Hook(rq, r, "after_delete", Head(objs)), Tail(objs))

\* objs = await self.find_by_pks(request, pks)
FoundObjs(r) ==
    IF Raising(r) THEN <<>>
    ELSE [i \in 1..Len(r.result) |-> Obj(r.result[i], r.identity[r.result[i]])]

DeleteCommit(k, rq, r, objs) ==
    IF IsAsyncSession(k)
    THEN Commit(rq, DeleteLoop(rq, r, "await", objs), "await")
    ELSE Commit(rq, DeleteLoop(rq, r, "thread", objs), "thread")

\* A faulty variant: the length of the list asked for is returned.
DeleteObjs_len_pks(k, rq, r, objs) ==
    Return(AfterDeleteLoop(rq, DeleteCommit(k, rq, r, objs), objs), Some(Len(rq.pks)))

DeleteObjs(k, rq, r, objs) ==
    Return(AfterDeleteLoop(rq, DeleteCommit(k, rq, r, objs), objs), Some(Len(objs)))

DeleteFound(k, rq, r) == DeleteObjs(k, rq, r, FoundObjs(r))

delete(k, vw, rq, r, pks) == DeleteFound(k, rq, find_by_pks(k, vw, rq, r, pks))

(***************************************************************************)
(* Actions of the view.  BaseModelView.handle_action / handle_row_action   *)
(* run the action named: the built-in "delete" action calls self.delete,   *)
(* any other is a coroutine of the application.                            *)
(***************************************************************************)
BaseHandleAction(k, vw, rq, r, pks) ==
    IF rq.name = "delete"
    THEN Return(delete(k, vw, rq, r, pks), Some("deleted"))
    ELSE Return(Hook(rq, r, "action", pks), Some("done"))

\* A faulty variant: no except clause.
ActionFailedFrom_reraise(r) == r

\* except SQLAlchemyError as exc: raise ActionFailed(str(exc)) from exc
ActionFailedFrom(r) ==
    IF r.exc = "SQLAlchemyError"
    THEN [r EXCEPT !.exc = "ActionFailed", !.cause = "SQLAlchemyError"]
    ELSE r

handle_action(k, vw, rq, r) ==
    ActionFailedFrom(BaseHandleAction(k, vw, rq, r, rq.pks))

handle_row_action(k, vw, rq, r) ==
    ActionFailedFrom(BaseHandleAction(k, vw, rq, r, <<rq.pk>>))

(***************************************************************************)
(* Requests                                                                *)
(***************************************************************************)
Env(at, n, exc, lib) == [at |-> at, n |-> n, exc |-> exc, lib |-> lib]
NoFault == Env("none", 1, NoExc, TRUE)

NoWhere == [kind |-> "none", attr |-> "", value |-> None, term |-> <<>>]
WhereDict(attr, value) ==
    [kind |-> "dict", attr |-> attr, value |-> value, term |-> <<>>]
WhereStr(term) == [kind |-> "str", attr |-> "", value |-> None, term |-> term]

Request(op, action) ==
    [op |-> op, action |-> action, data |-> NoData, pk |-> <<>>, pks |-> <<>>,
     where |-> NoWhere, skip |-> 0, limit |-> 0, order_by |-> <<>>,
     name |-> "", env |-> NoFault]

IdleRequest == Request("none", "")

RawPk(n) == IntToStr(n)
\* the keys a request may name: stored or not, "01" for 1, and no number
RawPks == {RawPk(1), RawPk(2), <<"0", "1">>, RawPk(9), <<"x">>}
PkLists == SeqsUpTo(RawPks, MaxPks)
\* the lists of keys the requests with a failing step name
FaultPkLists == SeqsUpTo({RawPk(1), RawPk(2)}, MaxPks)

\* the forms submitted
DataSet ==
    {[title |-> Some(<<"a">>), published |-> TRUE, tags |-> Some(<<>>),
      cover |-> <<Some("f1"), FALSE>>],
     [title |-> Some(<<"A", "b">>), published |-> FALSE,
      tags |-> Some(<<RawPk(2), RawPk(1), RawPk(9)>>), cover |-> <<None, TRUE>>],
     [title |-> None, published |-> TRUE, tags |-> Some(<<RawPk(2)>>),
      cover |-> <<None, FALSE>>]}

\* what can go wrong while a form is saved
WriteEnvs ==
    {NoFault,
     Env("none", 1, NoExc, FALSE),
     Env("execute", 1, "SQLAlchemyError", TRUE),
     Env("execute", 2, "SQLAlchemyError", TRUE),
     Env("validate", 1, "FormValidationError", TRUE),
     Env("validate", 1, "FormValidationError", FALSE),
     Env("before", 1, "HookError", TRUE),
     Env("commit", 1, "SQLAlchemyError", TRUE),
     Env("commit", 1, "SQLAlchemyError", FALSE),
     Env("commit", 1, "FileValidationError", TRUE),
     Env("refresh", 1, "SQLAlchemyError", TRUE),
     Env("after", 1, "HookError", TRUE)}

DeleteEnvs ==
    {NoFault,
     Env("execute", 1, "SQLAlchemyError", TRUE),
     Env("before", 1, "HookError", TRUE),
     Env("before", 2, "HookError", TRUE),
     Env("delete", 1, "SQLAlchemyError", TRUE),
     Env("commit", 1, "SQLAlchemyError", TRUE),
     Env("after", 1, "HookError", TRUE),
     Env("after", 2, "HookError", TRUE)}

ActionEnvs ==
    {NoFault,
     Env("commit", 1, "SQLAlchemyError", TRUE),
     Env("before", 1, "HookError", TRUE),
     Env("action", 1, "SQLAlchemyError", TRUE),
     Env("action", 1, "ActionFailed", TRUE),
     Env("action", 1, "HookError", TRUE)}

ReadEnvs == {NoFault, Env("execute", 1, "SQLAlchemyError", TRUE)}

Wheres ==
    {NoWhere, WhereDict("title", Some(<<"a">>)), WhereDict("published", Some(<<"1">>)),
     WhereStr(<<"a">>), WhereStr(<<"b">>), WhereStr(<<"_">>)}
ListWheres == {NoWhere, WhereDict("published", Some(<<"1">>)), WhereStr(<<"a">>)}

OrderEntries == {<<"title", " ", "desc">>, <<"tags", " ", "asc">>}
OrderLists == SeqsUpTo(OrderEntries, MaxOrder)

\* the view of the Post model
PostConfig ==
    [DefaultConfig EXCEPT !.sortable_field_mapping = [a \in {"tags"} |-> "Tag.name"]]
PostView == ModelViewInit(PostModel, PostConfig)

(***************************************************************************)
(* The state machine: a request is served by both deployments, then the    *)
(* response is sent and the sessions are closed.                           *)
(***************************************************************************)
Serve(rq, runs) ==
    /\ pc = "idle"
    /\ req' = rq
    /\ run' = runs
    /\ db' = [k \in Kinds |-> run'[k].table]
    /\ pc' = "done"
    /\ UNCHANGED view

CreateRequest ==
    \E data \in DataSet, env \in WriteEnvs :
        LET rq == [Request("create", "CREATE") EXCEPT !.data = data, !.env = env]
        IN  /\ \A k \in Kinds : NextPk(db[k]) <= MaxPk
            /\ Serve(rq, [k \in Kinds |-> create(k, view, rq, NewRun(db[k]))])

EditRequest ==
    \E pk \in RawPks, data \in DataSet, env \in WriteEnvs :
        LET rq == [Request("edit", "EDIT") EXCEPT !.pk = pk, !.data = data, !.env = env]
        IN  Serve(rq, [k \in Kinds |-> edit(k, view, rq, NewRun(db[k]))])

DeleteRequest ==
    \E pks \in PkLists, env \in DeleteEnvs :
        LET rq == [Request("delete", "API") EXCEPT !.pks = pks, !.env = env]
        IN  /\ env = NoFault \/ pks \in FaultPkLists
            /\ Serve(rq, [k \in Kinds |-> delete(k, view, rq, NewRun(db[k]), rq.pks)])

HandleActionRequest ==
    \E name \in {"delete", "publish"}, pks \in SeqsUpTo(RawPks, 1), env \in ActionEnvs :
        LET rq == [Request("handle_action", "ACTION") EXCEPT
                      !.name = name, !.pks = pks, !.env = env]
        IN  Serve(rq, [k \in Kinds |-> handle_action(k, view, rq, NewRun(db[k]))])

HandleRowActionRequest ==
    \E name \in {"delete", "publish"}, pk \in RawPks, env \in ActionEnvs :
        LET rq == [Request("handle_row_action", "ROW_ACTION") EXCEPT
                      !.name = name, !.pk = pk, !.env = env]
        IN  Serve(rq, [k \in Kinds |-> handle_row_action(k, view, rq, NewRun(db[k]))])

CountRequest ==
    \E where \in Wheres, env \in ReadEnvs :
        LET rq == [Request("count", "LIST") EXCEPT !.where = where, !.env = env]
        IN  Serve(rq, [k \in Kinds |-> count(k, view, rq, NewRun(db[k]))])

FindAllRequest ==
    \E skip \in {0, 1}, limit \in 0..MaxPage, where \in ListWheres,
       order_by \in OrderLists, env \in ReadEnvs :
        LET rq == [Request("find_all", "LIST") EXCEPT
                      !.skip = skip, !.limit = limit, !.where = where,
                      !.order_by = order_by, !.env = env]
        IN  /\ env = NoFault \/ (skip = 0 /\ limit = 0 /\ where = NoWhere)
            /\ Serve(rq, [k \in Kinds |-> find_all(k, view, rq, NewRun(db[k]))])

FindByPkRequest ==
    \E pk \in RawPks, env \in ReadEnvs :
        LET rq == [Request("find_by_pk", "DETAIL") EXCEPT !.pk = pk, !.env = env]
        IN  Serve(rq, [k \in Kinds |-> ReturnResult(find_by_pk(k, view, rq, NewRun(db[k]), rq.pk))])

FindByPksRequest ==
    \E pks \in PkLists, env \in ReadEnvs :
        LET rq == [Request("find_by_pks", "API") EXCEPT !.pks = pks, !.env = env]
        IN  /\ env = NoFault \/ pks \in FaultPkLists
            /\ Serve(rq, [k \in Kinds |-> ReturnResult(find_by_pks(k, view, rq, NewRun(db[k]), rq.pks))])

Respond ==
    /\ pc = "done"
    /\ pc' = "idle"
    /\ req' = IdleRequest
    /\ run' = [k \in Kinds |-> NewRun(db[k])]
    /\ UNCHANGED <<db, view>>

Init ==
    /\ db = [k \in Kinds |-> EmptyTable]
    /\ req = IdleRequest
    /\ run = [k \in Kinds |-> NewRun(EmptyTable)]
    /\ pc = "idle"
    /\ view = PostView

Next ==
    \/ CreateRequest
    \/ EditRequest
    \/ DeleteRequest
    \/ HandleActionRequest
    \/ HandleRowActionRequest
    \/ CountRequest
    \/ FindAllRequest
    \/ FindByPkRequest
    \/ FindByPksRequest
    \/ Respond

Spec == Init /\ [][Next]_vars

(***************************************************************************)
(* Construction on its own: a class is drawn, then ModelView(model) runs.  *)
(* Here req holds the class and view is the outcome of the construction.   *)
(***************************************************************************)
\* a primary-key column whose attribute key is not the column's name
AttrIdent == Attr("ident", "column", "id", TRUE, "int")

ClassAttrs == {AttrTablename, AttrId, AttrIdent, AttrCode, AttrTitle, AttrTags}

\* keys are unique in a __dict__, column names are unique in a table, and
\* the mapper refuses a class without a primary-key column
Classes ==
    {[name |-> "Post", mapped |-> m, dict |-> d] :
        m \in BOOLEAN,
        d \in {s \in SeqsUpTo(ClassAttrs, MaxAttrs) :
                /\ \A i, j \in 1..Len(s) :
                      i # j => /\ s[i].key # s[j].key
                               /\ s[i].kind = "column" /\ s[j].kind = "column"
                                      => s[i].column # s[j].column
                /\ \E i \in 1..Len(s) : IsPkColumnAttr(s[i])}}

InitConstruct ==
    /\ db = [k \in Kinds |-> EmptyTable]
    /\ req \in Classes
    /\ run = [k \in Kinds |-> NewRun(EmptyTable)]
    /\ pc = "new"
    /\ view = FailedView("unbuilt")

Construct ==
    /\ pc = "new"
    /\ view' = ModelViewInit(req, DefaultConfig)
    /\ pc' = "built"
    /\ UNCHANGED <<db, req, run>>

NextConstruct == Construct

SpecInit == InitConstruct /\ [][NextConstruct]_vars

(***************************************************************************)
(* build_order_clauses on its own: an order list is drawn and the          *)
(* statement built from select(Post) is returned.                          *)
(***************************************************************************)
OrderInputs ==
    {<<"title", " ", "desc">>, <<"title", " ", "DESC">>, <<"title", " ", "asc">>,
     <<"tags", " ", "asc">>, <<"tags", " ", "Desc">>,
     <<"nosuch", " ", "asc">>, <<"nosuch", " ", "desc">>,
     <<"published", " ", "up">>, <<" ", "id", " ", "desc", " ">>, <<"id">>}

InitOrder ==
    /\ db = [k \in Kinds |-> EmptyTable]
    /\ \E order_list \in SeqsUpTo(OrderInputs, MaxOrder) :
          req = [Request("build_order_clauses", "LIST") EXCEPT !.order_by = order_list]
    /\ run = [k \in Kinds |-> NewRun(EmptyTable)]
    /\ pc = "idle"
    /\ view = PostView

BuildOrderReturn(r, built) ==
    IF built.exc # NoExc THEN Raise(r, built.exc) ELSE Return(r, Some(built.stmt))

BuildOrderClauses ==
    /\ pc = "idle"
    /\ run' = [k \in Kinds |->
                  BuildOrderReturn(run[k],
                      build_order_clauses(view, req.order_by, get_list_query(view)))]
    /\ pc' = "done"
    /\ UNCHANGED <<db, req, view>>

NextOrder == BuildOrderClauses

SpecOrder == InitOrder /\ [][NextOrder]_vars

(***************************************************************************)
(* Counting and searching over views with other settings: a view and the   *)
(* stored rows are drawn, then count requests are served.                  *)
(***************************************************************************)
\* count query and list query overridden to published posts only
FilteredConfig == [PostConfig EXCEPT !.count_filter = TRUE, !.list_filter = TRUE]
\* searchable_fields names no text field
IdSearchConfig == [PostConfig EXCEPT !.searchable_fields = Some({"id"})]
\* searchable_fields names a text field and a field of another type
MixedSearchConfig == [PostConfig EXCEPT !.searchable_fields = Some({"title", "published"})]

QueryViews ==
    {ModelViewInit(PostModel, cfg) :
        cfg \in {PostConfig, FilteredConfig, IdSearchConfig, MixedSearchConfig}}

StoredRows ==
    {Row(title, published, {}, None) :
        title \in {None, Some(<<"a">>), Some(<<"A", "b">>)}, published \in BOOLEAN}

Tables == UNION {[1..n -> StoredRows] : n \in 0..MaxPk}

InitQuery ==
    /\ \E table \in Tables :
          /\ db = [k \in Kinds |-> table]
          /\ run = [k \in Kinds |-> NewRun(table)]
    /\ req = IdleRequest
    /\ pc = "idle"
    /\ view \in QueryViews

NextQuery ==
    \/ CountRequest
    \/ Respond

SpecQuery == InitQuery /\ [][NextQuery]_vars

(***************************************************************************)
(* Properties                                                              *)
(***************************************************************************)
\* the last call of the run raised
RaisedIn(r) == r.trace # <<>> /\ ~r.trace[Len(r.trace)].ok

\* the stored keys a list of raw keys names
Requested(pks, table) ==
    {p \in DOMAIN table : \E i \in 1..Len(pks) : ParseInt(pks[i]) = p}

C2_NoRawOrmError ==
    (pc = "done" /\ req.op \in {"handle_action", "handle_row_action", "create", "edit"})
    => \A k \in Kinds : run[k].exc # "SQLAlchemyError"

\* C2: handle_action and handle_row_action re-raise a SQLAlchemyError as
\* ActionFailed (raised from it) and let any other exception through;
\* create and edit turn only a sqlalchemy_file ValidationError into
\* FormValidationError (when that library is installed) and let every other
\* exception, a SQLAlchemyError included, reach the caller as it is.
C2_OrmErrorTranslation ==
    pc = "done" =>
    \A k \in Kinds :
       /\ req.op \in {"handle_action", "handle_row_action"} =>
             /\ run[k].exc # "SQLAlchemyError"
             /\ RaisedIn(run[k]) =>
                   IF req.env.exc = "SQLAlchemyError"
                   THEN run[k].exc = "ActionFailed" /\ run[k].cause = "SQLAlchemyError"
                   ELSE run[k].exc = req.env.exc /\ run[k].cause = NoExc
       /\ req.op \in {"create", "edit"} =>
             (RaisedIn(run[k]) =>
                 run[k].exc = IF req.env.exc = "FileValidationError" /\ req.env.lib
                              THEN "FormValidationError" ELSE req.env.exc)

\* C2 witness: a create whose commit raised SQLAlchemyError ended with
\* SQLAlchemyError; an action with the same failure ends with ActionFailed.
C2_Witness ==
    /\ pc = "done"
    /\ req.op = "create"
    /\ req.env = Env("commit", 1, "SQLAlchemyError", TRUE)
    /\ \A k \in Kinds : RaisedIn(run[k]) /\ run[k].exc = "SQLAlchemyError"

SevenHandlers ==
    {"count", "find_all", "find_by_pk", "find_by_pks", "create", "edit", "delete"}

\* C4 as stated: every session call is dispatched to a worker thread when
\* the session is synchronous and awaited when it is asynchronous.
C4_EverySessionCallDispatched ==
    (pc = "done" /\ req.op \in SevenHandlers)
    => \A k \in Kinds : \A i \in 1..Len(run[k].trace) :
          run[k].trace[i].call \in SessionCalls
          => run[k].trace[i].via = IF IsAsyncSession(k) THEN "await" ELSE "thread"

\* C4: execute, delete, commit and refresh go to a worker thread when the
\* session is synchronous and are awaited when it is asynchronous;
\* session.add is a plain call on the loop for both kinds of session.
C4_DispatchExceptAdd ==
    (pc = "done" /\ req.op \in SevenHandlers)
    => \A k \in Kinds : \A i \in 1..Len(run[k].trace) :
          /\ run[k].trace[i].call \in SessionCalls \ {"add"}
             => run[k].trace[i].via = IF IsAsyncSession(k) THEN "await" ELSE "thread"
          /\ run[k].trace[i].call = "add" => run[k].trace[i].via = "direct"

\* C4 witness: a create that went through add, commit and refresh.
C4_Witness ==
    /\ pc = "done"
    /\ req.op = "create"
    /\ \A k \in Kinds :
          /\ run[k].exc = NoExc
          /\ \E i, j, l \in 1..Len(run[k].trace) :
                /\ run[k].trace[i].call = "add"
                /\ run[k].trace[j].call = "commit"
                /\ run[k].trace[l].call = "refresh"

\* C5: on the same request and the same stored rows, the run with a
\* synchronous session and the run with an asynchronous session issue the
\* same session calls and hook calls, in the same order, with the same
\* arguments and the same outcomes, end with the same result or the same
\* exception and leave the same rows.
C5_SyncAsyncSameRun ==
    (/\ pc = "done"
     /\ req.op \in SevenHandlers
     /\ run["sync"].start = run["async"].start)
    => /\ Len(run["sync"].trace) = Len(run["async"].trace)
       /\ \A i \in 1..Len(run["sync"].trace) :
             /\ run["sync"].trace[i].call = run["async"].trace[i].call
             /\ run["sync"].trace[i].ok = run["async"].trace[i].ok
             /\ run["sync"].trace[i].arg = run["async"].trace[i].arg
       /\ run["sync"].exc = run["async"].exc
       /\ run["sync"].ret = run["async"].ret
       /\ db["sync"] = db["async"]

\* C5 witness: an edit of a stored object that was committed and refreshed
\* by both kinds of session, each dispatching in its own way.
C5_Witness ==
    /\ pc = "done"
    /\ req.op = "edit"
    /\ run["sync"].exc = NoExc
    /\ run["async"].exc = NoExc
    /\ \E i \in 1..Len(run["sync"].trace) :
          /\ run["sync"].trace[i].call = "refresh"
          /\ run["sync"].trace[i].via = "thread"
          /\ run["async"].trace[i].via = "await"

\* C6: when validate raises FormValidationError in create or edit, that
\* error is what the caller gets, nothing is returned, and the run holds no
\* add, delete, commit or refresh, no before_* or after_* hook, no populated
\* object, no pending row and no change to a loaded object or to the table.
C6_ValidateFailureLeavesNothing ==
    (pc = "done" /\ req.op \in {"create", "edit"})
    => \A k \in Kinds :
          (\E i \in 1..Len(run[k].trace) :
               run[k].trace[i].call = "validate" /\ ~run[k].trace[i].ok)
          => /\ run[k].exc = "FormValidationError"
             /\ run[k].ret = None
             /\ \A i \in 1..Len(run[k].trace) :
                   run[k].trace[i].call \notin
                       {"add", "delete", "commit", "refresh"} \cup BeforeHooks \cup AfterHooks
             /\ run[k].obj = None
             /\ run[k].new = <<>>
             /\ run[k].table = run[k].start
             /\ \A p \in DOMAIN run[k].identity : run[k].identity[p] = run[k].start[p]

\* C6 witness: an edit of a stored object whose form failed validation.
C6_Witness ==
    /\ pc = "done"
    /\ req.op = "edit"
    /\ req.pk = RawPk(1)
    /\ \A k \in Kinds :
          /\ 1 \in DOMAIN run[k].start
          /\ RaisedIn(run[k])
          /\ run[k].trace[Len(run[k].trace)].call = "validate"
          /\ run[k].exc = "FormValidationError"

\* a stored object satisfies the where argument of count / find_all
WhereMatches(vw, where, pk, row) ==
    CASE where.kind = "none" -> TRUE
      [] where.kind = "dict" -> Eval(build_query(where), pk, row)
      [] where.kind = "str" ->
            Selected(Where(Select("model", "post"),
                           build_full_text_search_query(vw, where.term)), pk, row)

\* the objects find_all lists for a where argument, over all pages
ListedFor(k, vw, rq, table) ==
    find_all(k, vw,
             [rq EXCEPT !.op = "find_all", !.skip = 0, !.limit = 0, !.env = NoFault],
             NewRun(table)).result

\* C3: a count that returns gives the number of rows of the configured
\* count query (the overridden one included) that satisfy where: every row
\* of the query for None, the rows passing build_query(where) for a dict,
\* the rows passing the full-text search clause for a string.  With the
\* default queries it is the number of objects find_all lists for the same
\* where over all pages.
C3_CountIsConfiguredQueryCount ==
    (pc = "done" /\ req.op = "count")
    => \A k \in Kinds :
          run[k].exc = NoExc
          => /\ run[k].ret =
                   Some(Cardinality({p \in DOMAIN db[k] :
                       /\ view.count_filter => db[k][p].published
                       /\ WhereMatches(view, req.where, p, db[k][p])}))
             /\ (~view.count_filter /\ ~view.list_filter)
                   => run[k].ret = Some(Len(ListedFor(k, view, req, db[k])))

\* C3 witness: a search counted one of two stored objects through an
\* overridden count query, and one of two through the default one.
C3_Witness ==
    /\ pc = "done"
    /\ req.op = "count"
    /\ req.where.kind = "str"
    /\ view.count_filter
    /\ \A k \in Kinds :
          /\ Cardinality(DOMAIN db[k]) = 2
          /\ \A p \in DOMAIN db[k] : ILike(db[k][p].title, <<"%">> \o req.where.term \o <<"%">>)
          /\ run[k].ret = Some(1)

\* the positions of the primary-key columns in a class __dict__
PkPositions(model) ==
    {i \in 1..Len(model.dict) :
        model.dict[i].kind = "column" /\ model.dict[i].primary_key}

\* C7: construction succeeds exactly for a mapped class with one
\* primary-key column; a class that is not mapped gets InvalidModelError, a
\* mapped class with several primary-key columns gets the AssertionError;
\* after a successful construction the primary-key column, pk_attr and the
\* coercion are those of the one primary-key attribute of the class.
C7_ConstructionSetsPrimaryKey ==
    pc = "built" =>
       /\ view.error = "none" <=> (req.mapped /\ Cardinality(PkPositions(req)) = 1)
       /\ ~req.mapped => view.error = "InvalidModelError"
       /\ (req.mapped /\ Cardinality(PkPositions(req)) > 1)
             => view.error = "AssertionError"
       /\ view.error = "none" =>
             \E i \in PkPositions(req) :
                /\ view.pk_column = Column(req.dict[i])
                /\ view.pk_attr = Some(req.dict[i].key)
                /\ view.pk_coerce = req.dict[i].type

\* C7 witness: a view was built for a class whose primary key is declared
\* after another mapped attribute, under a key that is not the column name.
C7_Witness ==
    /\ pc = "built"
    /\ view.error = "none"
    /\ req.dict[1].kind \in {"column", "relationship"}
    /\ ~req.dict[1].primary_key
    /\ view.pk_attr = Some("ident")
    /\ view.pk_column.name = "id"

\* the words of an order entry
Words(value) == SelectSeq(value, LAMBDA w : w # " ")

\* C8 as stated: a build_order_clauses that returns has added one ORDER BY
\* clause per entry, in list order; the clause of "attr dir" is descending
\* exactly when dir is "desc" in any case, sorts by
\* sortable_field_mapping[attr] when the mapping has attr and by the
\* attribute attr otherwise, and the relationships among the attributes are
\* outer-joined, one join per such entry.
C8_OneClausePerEntry ==
    pc = "done" =>
    \A k \in Kinds :
       run[k].exc = NoExc =>
          /\ Len(Get(run[k].ret).order_by) = Len(req.order_by)
          /\ \A i \in 1..Len(req.order_by) :
                /\ Get(run[k].ret).order_by[i].desc =
                       (LowerWord(Words(req.order_by[i])[2]) = "desc")
                /\ Get(run[k].ret).order_by[i].attr =
                       IF Words(req.order_by[i])[1] \in DOMAIN view.sortable_field_mapping
                       THEN view.sortable_field_mapping[Words(req.order_by[i])[1]]
                       ELSE Words(req.order_by[i])[1]
          /\ Get(run[k].ret).joins =
                SelectSeq([i \in 1..Len(req.order_by) |-> Words(req.order_by[i])[1]],
                          LAMBDA a : /\ HasAttr(PostModel, a)
                                     /\ GetAttr(PostModel, a).kind = "relationship")

\* s contains t
Contains(s, t) ==
    \E i \in 0..(Len(s) - Len(t)) : SubSeq(s, i + 1, i + Len(t)) = t

\* some searchable text field of the view has a value that contains term,
\* ignoring case
TextFieldContains(vw, term, pk, row) ==
    \E i \in 1..Len(vw.fields) :
        /\ vw.fields[i].searchable
        /\ vw.fields[i].type \in SearchTypes
        /\ ~IsNone(CastString(vw.fields[i].name, pk, row))
        /\ Contains(Lower(Get(CastString(vw.fields[i].name, pk, row))), Lower(term))

\* C9 as stated: a search counts exactly the stored objects one of whose
\* searchable text fields contains the term, ignoring case; none when the
\* view has no such field.
C9_SearchMatchesTextFields ==
    (/\ pc = "done"
     /\ req.op = "count"
     /\ req.where.kind = "str"
     /\ ~view.count_filter)
    => \A k \in Kinds :
          run[k].exc = NoExc
          => run[k].ret =
                Some(Cardinality({p \in DOMAIN db[k] :
                    TextFieldContains(view, req.where.term, p, db[k][p])}))

\* the positions of the calls of a trace that are in a set
Positions(trace, calls) == {i \in 1..Len(trace) : trace[i].call \in calls}

\* the objects a hook was called with, in call order
HookArgs(trace, name) ==
    LET calls == SelectSeq(trace, LAMBDA e : e.call = name)
    IN  [i \in 1..Len(calls) |-> calls[i].arg]

IsPrefix(s, t) == Len(s) <= Len(t) /\ SubSeq(t, 1, Len(s)) = s

\* C10, for one run
HooksAroundCommit(r) ==
    /\ \A i \in Positions(r.trace, BeforeHooks) :
          \A j \in Positions(r.trace, {"commit"}) : i < j
    /\ \A i \in Positions(r.trace, AfterHooks) :
          \E j \in Positions(r.trace, {"commit"}) : j < i /\ r.trace[j].ok
    /\ r.exc = NoExc =>
          /\ Cardinality(Positions(r.trace, {"commit"})) = 1
          /\ \A i \in 1..Len(r.trace) : r.trace[i].ok
    /\ Cardinality(Positions(r.trace, {"commit"})) <= 1
    /\ (\A j \in Positions(r.trace, {"commit"}) : ~r.trace[j].ok)
          => Positions(r.trace, AfterHooks) = {}
    /\ Raising(r) => r.ret = None
    /\ \A i \in 1..Len(r.trace) :
          ~r.trace[i].ok => Raising(r) /\ i = Len(r.trace)
    /\ \A i \in Positions(r.trace, {"delete"}) :
          /\ i > 1
          /\ r.trace[i - 1].call = "before_delete"
          /\ r.trace[i - 1].arg = r.trace[i].arg
          /\ \A j \in Positions(r.trace, {"commit"}) : i < j
    /\ IsPrefix(HookArgs(r.trace, "after_delete"), HookArgs(r.trace, "before_delete"))
    /\ r.exc = NoExc =>
          HookArgs(r.trace, "after_delete") = HookArgs(r.trace, "before_delete")

\* C10: in create, edit and delete every before_* hook precedes the commit
\* and every after_* hook follows a commit that succeeded; a run that
\* returns has issued exactly one commit; a run in which a step up to the
\* commit raised has no later commit and no after_* hook and does not
\* return; in delete each before_delete comes right before the session
\* delete of the same object, the deletes come before the commit and
\* after_delete runs over the objects in the order before_delete did.
C10_HooksAroundCommit ==
    (pc = "done" /\ req.op \in {"create", "edit", "delete"})
    => \A k \in Kinds : HooksAroundCommit(run[k])

\* C10 witness: a delete of two stored objects ran every hook.
C10_Witness ==
    /\ pc = "done"
    /\ req.op = "delete"
    /\ \A k \in Kinds :
          /\ run[k].exc = NoExc
          /\ Len(HookArgs(run[k].trace, "after_delete")) = 2
          /\ Cardinality(Positions(run[k].trace, {"commit"})) = 1

\* the stored objects that satisfy the where argument of a request
Matching(vw, where, table) ==
    {p \in DOMAIN table : WhereMatches(vw, where, p, table[p])}

Smaller(a, b) == IF a <= b THEN a ELSE b
Larger(a, b) == IF a >= b THEN a ELSE b

\* C11 as stated: a find_all that returns lists every object at most once,
\* lists only objects that satisfy where, and lists
\* min(limit, max(0, M - skip)) of them when limit > 0 and max(0, M - skip)
\* otherwise, M being the number of objects that satisfy where -- whatever
\* order_by names, a relationship included; under "title desc" alone the
\* titles come in descending order.
C11_FindAllPage ==
    (pc = "done" /\ req.op = "find_all")
    => \A k \in Kinds :
          run[k].exc = NoExc
          => /\ \A i, j \in 1..Len(run[k].result) :
                   i # j => run[k].result[i] # run[k].result[j]
             /\ SeqToSet(run[k].result) \subseteq Matching(view, req.where, db[k])
             /\ Len(run[k].result) =
                   IF req.limit > 0
                   THEN Smaller(req.limit,
                            Larger(0, Cardinality(Matching(view, req.where, db[k])) - req.skip))
                   ELSE Larger(0, Cardinality(Matching(view, req.where, db[k])) - req.skip)
             /\ req.order_by = <<<<"title", " ", "desc">>>>
                   => \A i \in 1..(Len(run[k].result) - 1) :
                         CmpKey(SortKey("title", JoinedRow(run[k].result[i], None), db[k]),
                                SortKey("title", JoinedRow(run[k].result[i + 1], None), db[k]))
                            >= 0

====
